---- MODULE Spec2Model ----
(***************************************************************************)
(* Migration job orchestrator of backend/main.py and the progress store of *)
(* backend/migration_progress.py.                                          *)
(*                                                                         *)
(* Scheduling: the handlers, the orchestrator task and the SSE generators  *)
(* are asyncio tasks of one event loop.  The body of every                 *)
(* `async with lock:` block holds no await, so each block is one atomic    *)
(* action; a task may be descheduled where it awaits the lock, so between  *)
(* two blocks of one task the blocks of other tasks may run.  The calls to *)
(* the translation client and to the SQL cursor are synchronous: they run  *)
(* in the same step as the code that precedes them, up to the next         *)
(* `async with lock:`.                                                     *)
(***************************************************************************)
EXTENDS Integers, Sequences, FiniteSets, TLC

\* ------------------------------------------------------------------ bounds
MaxObjs == 2        \* objects of one inventory read
LogTail == 2        \* objects left to process in the states LogInit draws
StreamObjs == 1     \* objects of one inventory read under SpecStream
StreamTail == 1     \* objects left to process in the states LogStreamInit draws
OrderObjs == 3      \* objects of one inventory read under SpecOrder
MaxClock == 3       \* reading of the clock after which SpecCreate creates no more

\* --------------------------------------------------------------- constants
LogCap == 1000      \* migration_progress.py: "Keep only last 1000 log entries"
NoTime == 0         \* end_time None
NoObject == 0       \* current_object None
NoLock == 0         \* a task that holds no reference to a lock object

Uuids == {"j1", "j2"}       \* ids uuid4 may return
Unknown == "jx"             \* an id no StartJob ever returns
Consumers == {"c1", "c2"}   \* callers of /api/migrate/stream
Terminal == {"completed", "failed", "cancelled"}

VARIABLES
    migration_jobs,     \* main.py:586  job_id -> record
    migration_locks,    \* main.py:587  job_id -> lock object
    held,               \* lock objects that are locked while their holder is suspended
    fresh,              \* ids uuid4 has not returned yet
    OPENAI_AVAILABLE,   \* main.py:20-24, fixed at import
    now,                \* reading of datetime.now()
    task,               \* job_id -> state of its run_migration_job task
    cancel_seen,        \* job_id -> where the orchestrator stood when CancelJob took effect
    sse,                \* consumer -> state of its generate_sse_events generator
    written,            \* job_id -> every log entry appended to its record so far
    snapshot,           \* the dict of the last GetProgress whose caller kept it
    resp                \* response of the handler that ran in the last step

vars == <<migration_jobs, migration_locks, held, fresh, OPENAI_AVAILABLE, now,
          task, cancel_seen, sse, written, snapshot, resp>>

\* ------------------------------------------------------------ helper values
Last(s) == s[Len(s)]

\* A Python dict is a function on all ids; a key the dict does not hold maps to
\* Absent (migration_jobs) or to NoLock (migration_locks).
Ids == Uuids \cup {Unknown}

Absent == [status |-> "absent"]

Has(jobs_dict, job_id) == jobs_dict[job_id].status # "absent"

HasLock(locks_dict, job_id) == locks_dict[job_id] # NoLock

Put(d, k, v) == [d EXCEPT ![k] = v]

Range(f) == {f[x] : x \in DOMAIN f}

SeqsUpTo(S, n) == UNION {[1..k -> S] : k \in 0..n}

\* trace: the outcome of the synchronous calls made for each object attempted so far
NoTask == [pc |-> "none", lock |-> NoLock, resolved |-> FALSE, all_objects |-> <<>>,
           idx |-> 0, dry_run |-> FALSE, trace |-> <<>>]

\* got_logs, got_results: the new_logs and new_results of all frames, concatenated;
\* frame: the last progress frame; completes, errors: frames with complete: True and
\* with error: 'Job not found' emitted so far.
NoFrame == [status |-> "none"]

NoStream == [pc |-> "idle", job_id |-> Unknown, lock |-> NoLock,
             last_sent_log_count |-> 0, last_sent_result_count |-> 0,
             got_logs |-> <<>>, got_results |-> <<>>,
             frame |-> NoFrame, completes |-> 0, errors |-> 0]

NoSnapshot == [job_id |-> Unknown, logs_shared |-> FALSE, logs |-> <<>>,
               results_shared |-> FALSE, object_results |-> <<>>]

NoResp == [op |-> "none"]

\* Lock objects are compared by identity only.  The lock objects made for one job_id
\* are numbered; a new asyncio.Lock() takes the least number that no live reference
\* to a lock of that job_id carries.  held holds pairs <<job_id, number>>.
LiveLocks(job_id) ==
    ({migration_locks[job_id], task[job_id].lock}
     \cup {sse[c].lock : c \in {x \in Consumers : sse[x].job_id = job_id}}
     \cup {h[2] : h \in {x \in held : x[1] = job_id}}) \ {NoLock}

NewLock(job_id) ==
    CHOOSE n \in 1..(Cardinality(LiveLocks(job_id)) + 1) : n \notin LiveLocks(job_id)

\* --------------------------------------------- migration_progress.py helpers
get_migration_lock(job_id, locks_dict) ==
    IF ~HasLock(locks_dict, job_id)
        THEN Put(locks_dict, job_id, NewLock(job_id))
        ELSE locks_dict

\* mutant: the record starts with status pending
initialize_migration_job_pending(job_id, jobs_dict, total_objects) ==
    Put(jobs_dict, job_id,
        [status |-> "pending",
         progress_percentage |-> 0,
         total_objects |-> total_objects,
         completed_objects |-> 0,
         failed_objects |-> 0,
         current_object |-> NoObject,
         end_time |-> NoTime,
         logs |-> <<>>,
         object_results |-> <<>>])

initialize_migration_job(job_id, jobs_dict, total_objects) ==
    Put(jobs_dict, job_id,
        [status |-> "running",
         progress_percentage |-> 0,
         total_objects |-> total_objects,
         completed_objects |-> 0,
         failed_objects |-> 0,
         current_object |-> NoObject,
         end_time |-> NoTime,
         logs |-> <<>>,
         object_results |-> <<>>])

\* int(((completed + failed) / total) * 100)
Percentage(completed, failed, total) == ((completed + failed) * 100) \div total

\* mutant: an update of completed_objects is dropped
update_migration_progress_drops_completed(job_id, jobs_dict, updates) ==
    IF Has(jobs_dict, job_id)
        THEN LET job == jobs_dict[job_id]
                 merged == [f \in DOMAIN job |->
                               IF f \in DOMAIN updates /\ f # "completed_objects"
                                   THEN updates[f] ELSE job[f]]
             IN  [jobs_dict EXCEPT ![job_id] = merged]
        ELSE jobs_dict

update_migration_progress(job_id, jobs_dict, updates) ==
    IF Has(jobs_dict, job_id)
        THEN LET job == jobs_dict[job_id]
                 merged == [f \in DOMAIN job |->
                               IF f \in DOMAIN updates THEN updates[f] ELSE job[f]]
                 counted == "completed_objects" \in DOMAIN updates
                            \/ "failed_objects" \in DOMAIN updates
             IN  [jobs_dict EXCEPT ![job_id] =
                     IF counted /\ merged.total_objects > 0
                         THEN [merged EXCEPT !.progress_percentage =
                                  Percentage(merged.completed_objects,
                                             merged.failed_objects,
                                             merged.total_objects)]
                         ELSE merged]
        ELSE jobs_dict

\* mutant: the slice keeps one entry too many
add_migration_log_off_by_one(job_id, jobs_dict, level, message) ==
    IF Has(jobs_dict, job_id)
        THEN LET appended == Append(jobs_dict[job_id].logs,
                                    [level |-> level, message |-> message])
             IN  [jobs_dict EXCEPT ![job_id].logs =
                     IF Len(appended) > LogCap + 1
                         THEN SubSeq(appended, Len(appended) - LogCap, Len(appended))
                         ELSE appended]
        ELSE jobs_dict

add_migration_log(job_id, jobs_dict, level, message) ==
    IF Has(jobs_dict, job_id)
        THEN LET appended == Append(jobs_dict[job_id].logs,
                                    [level |-> level, message |-> message])
             IN  [jobs_dict EXCEPT ![job_id].logs =
                     IF Len(appended) > LogCap
                         THEN SubSeq(appended, Len(appended) - LogCap + 1, Len(appended))
                         ELSE appended]
        ELSE jobs_dict

\* mutant: an outcome with status error is not appended
add_object_result_drops_errors(job_id, jobs_dict, object_name, object_type, status, error) ==
    IF Has(jobs_dict, job_id) /\ status # "error"
        THEN [jobs_dict EXCEPT ![job_id].object_results =
                 Append(@, [object_name |-> object_name,
                            object_type |-> object_type,
                            status |-> status,
                            error |-> error])]
        ELSE jobs_dict

add_object_result(job_id, jobs_dict, object_name, object_type, status, error) ==
    IF Has(jobs_dict, job_id)
        THEN [jobs_dict EXCEPT ![job_id].object_results =
                 Append(@, [object_name |-> object_name,
                            object_type |-> object_type,
                            status |-> status,
                            error |-> error])]
        ELSE jobs_dict

\* mutant: progress_percentage is not forced to 100
complete_migration_job_keeps_percentage(job_id, jobs_dict, status) ==
    IF Has(jobs_dict, job_id)
        THEN [jobs_dict EXCEPT ![job_id].status = status,
                               ![job_id].end_time = now]
        ELSE jobs_dict

complete_migration_job(job_id, jobs_dict, status) ==
    IF Has(jobs_dict, job_id)
        THEN [jobs_dict EXCEPT ![job_id].status = status,
                               ![job_id].end_time = now,
                               ![job_id].progress_percentage = 100]
        ELSE jobs_dict

\* ------------------------------------------------------------------ inputs
\* One read of inventory.json: per category the objects in inventory order, each
\* known here by whether it carries source text.
Inventories(n) ==
    {inv \in [tables : SeqsUpTo(BOOLEAN, n), views : SeqsUpTo(BOOLEAN, n),
              stored_procedures : SeqsUpTo(BOOLEAN, n)] :
        Len(inv.tables) + Len(inv.views) + Len(inv.stored_procedures) <= n}

Tagged(type, objs) == [i \in 1..Len(objs) |-> [type |-> type, src |-> objs[i]]]

\* mutant: the views are collected before the tables
all_objects_of_views_first(inventory) ==
    Tagged("VIEW", inventory.views) \o Tagged("TABLE", inventory.tables)
    \o Tagged("PROCEDURE", inventory.stored_procedures)

\* main.py 2041-2068
all_objects_of(inventory) ==
    Tagged("TABLE", inventory.tables) \o Tagged("VIEW", inventory.views)
    \o Tagged("PROCEDURE", inventory.stored_procedures)

\* ----------------------------------------------------------------- StartJob
Created == Uuids \ fresh

Free(job_id) == <<job_id, migration_locks[job_id]>> \notin held

\* History of the log of each record: every block of the program appends at most one
\* entry, which is then the last of the log; the history starts with the record and
\* ends with it.
Tracked ==
    [j \in Ids |->
        IF ~Has(migration_jobs', j) THEN <<>>
        ELSE IF ~Has(migration_jobs, j) THEN migration_jobs'[j].logs
        ELSE IF migration_jobs'[j].logs = migration_jobs[j].logs THEN written[j]
        ELSE Append(written[j], Last(migration_jobs'[j].logs))]

\* main.py 1941: dict.copy() makes a new dict whose values are the values of the
\* record; "logs" and "object_results" are the record's own list objects, which
\* list.append changes in place (migration_progress.py 74, 93).
copy(job_id) ==
    [job_id |-> job_id, logs_shared |-> TRUE, logs |-> <<>>,
     results_shared |-> TRUE, object_results |-> <<>>]

\* The dict a caller kept, after a step that did not replace it.  A list
\* stops being the record's list when the record is deleted (main.py 1982) and,
\* for the log, when the cap rebinds "logs" to a new list after the append
\* (migration_progress.py 77-78); from then on the dict alone holds it.
Aliased ==
    LET j == snapshot.job_id
    IN  IF j = Unknown THEN snapshot
        ELSE IF ~Has(migration_jobs', j)
            THEN [snapshot EXCEPT
                     !.logs = IF snapshot.logs_shared THEN migration_jobs[j].logs ELSE @,
                     !.object_results = IF snapshot.results_shared
                                            THEN migration_jobs[j].object_results ELSE @,
                     !.logs_shared = FALSE,
                     !.results_shared = FALSE]
        ELSE IF /\ snapshot.logs_shared
                /\ Len(migration_jobs[j].logs) = LogCap
                /\ migration_jobs'[j].logs # migration_jobs[j].logs
            THEN [snapshot EXCEPT
                     !.logs = Append(migration_jobs[j].logs, Last(migration_jobs'[j].logs)),
                     !.logs_shared = FALSE]
        ELSE snapshot

\* job["logs"] and job["object_results"] of that dict, as its holder reads them now
snapshot_logs ==
    IF snapshot.logs_shared THEN migration_jobs[snapshot.job_id].logs ELSE snapshot.logs

snapshot_object_results ==
    IF snapshot.results_shared THEN migration_jobs[snapshot.job_id].object_results
                               ELSE snapshot.object_results

start_migration(job_id, total_objects, dry_run) ==
    /\ job_id \in fresh
    /\ Free(job_id)
    /\ fresh' = fresh \ {job_id}
    /\ migration_locks' = get_migration_lock(job_id, migration_locks)
    /\ migration_jobs' =
          add_migration_log(job_id,
              initialize_migration_job(job_id, migration_jobs, total_objects),
              "info", <<"started", total_objects>>)
    /\ task' = [task EXCEPT ![job_id] = [NoTask EXCEPT !.pc = "start", !.dry_run = dry_run]]
    /\ written' = Tracked
    /\ snapshot' = Aliased
    /\ resp' = [op |-> "start", job_id |-> job_id, success |-> TRUE,
                total_objects |-> total_objects]
    /\ UNCHANGED <<held, OPENAI_AVAILABLE, now, cancel_seen, sse>>

StartJobOf(n) == \E job_id \in fresh, total_objects \in 0..n, dry_run \in BOOLEAN :
                    start_migration(job_id, total_objects, dry_run)

StartJob == StartJobOf(MaxObjs)

\* ------------------------------------------------------- run_migration_job
Acquirable(job_id) == <<job_id, task[job_id].lock>> \notin held

Finished(t) == [t EXCEPT !.pc = "done", !.lock = NoLock]

Stamp(before, after) == IF after = before THEN now ELSE now + 1

\* mutant: the dry_run flag is not consulted before the cursor executes
Outcomes_ignores_dry_run(obj, dry_run) ==
    IF ~obj.src
        THEN {"skipped"}
        ELSE IF obj.type \in {"TABLE", "VIEW"}
                 THEN {"translate_error", "executed", "exec_error"}
                 ELSE {"translate_error", "translated"}

\* The outcomes the synchronous calls of lines 2089-2134 can have for one object:
\* no source text; the translation raises; the translation returns and nothing is
\* executed; the cursor executes the translation; the cursor raises.
Outcomes(obj, dry_run) ==
    IF ~obj.src
        THEN {"skipped"}
        ELSE IF ~dry_run /\ obj.type \in {"TABLE", "VIEW"}
                 THEN {"translate_error", "executed", "exec_error"}
                 ELSE {"translate_error", "translated"}

AllOutcomes == {"skipped", "translate_error", "translated", "executed", "exec_error"}

\* lines 2009-2070: from the first step of the task to its first `async with lock:`
run_start(job_id, connected, inventory) ==
    /\ task[job_id].pc = "start"
    /\ migration_locks' = get_migration_lock(job_id, migration_locks)
    /\ task' = [task EXCEPT ![job_id] =
          LET t == [@ EXCEPT !.lock = migration_locks'[job_id]]
          IN  IF ~OPENAI_AVAILABLE THEN [t EXCEPT !.pc = "no_openai"]
              ELSE IF ~connected THEN [t EXCEPT !.pc = "except"]
              ELSE [t EXCEPT !.resolved = TRUE,
                             !.all_objects = all_objects_of(inventory),
                             !.idx = 1,
                             !.pc = IF all_objects_of(inventory) = <<>>
                                        THEN "finish" ELSE "check"]]
    /\ resp' = NoResp
    /\ UNCHANGED written
    /\ UNCHANGED snapshot
    /\ UNCHANGED <<migration_jobs, held, fresh, OPENAI_AVAILABLE, now, cancel_seen, sse>>

\* lines 2012-2016
run_no_openai(job_id) ==
    /\ task[job_id].pc = "no_openai"
    /\ Acquirable(job_id)
    /\ migration_jobs' =
          complete_migration_job(job_id,
              add_migration_log(job_id, migration_jobs, "error", <<"no_openai">>),
              "failed")
    /\ now' = Stamp(migration_jobs, migration_jobs')
    /\ task' = [task EXCEPT ![job_id] = Finished(@)]
    /\ written' = Tracked
    /\ snapshot' = Aliased
    /\ resp' = NoResp
    /\ UNCHANGED <<migration_locks, held, fresh, OPENAI_AVAILABLE, cancel_seen, sse>>

\* mutant: the check compares with a status no job ever has
is_cancelled_misspelt(job) == job.status = "canceled"

\* line 2074
is_cancelled(job) == job.status = "cancelled"

\* lines 2071-2081: the cancellation check at the top of an iteration
run_check(job_id) ==
    /\ task[job_id].pc = "check"
    /\ Acquirable(job_id)
    /\ IF ~Has(migration_jobs, job_id)
           THEN /\ task' = [task EXCEPT ![job_id].pc = "except"]     \* KeyError
                /\ UNCHANGED migration_jobs
           ELSE IF is_cancelled(migration_jobs[job_id])
                    THEN /\ migration_jobs' =
                               add_migration_log(job_id, migration_jobs,
                                                 "warning", <<"stopping">>)
                         /\ task' = [task EXCEPT ![job_id] = Finished(@)]
                    ELSE /\ task' = [task EXCEPT ![job_id].pc = "process"]
                         /\ UNCHANGED migration_jobs
    /\ written' = Tracked
    /\ snapshot' = Aliased
    /\ resp' = NoResp
    /\ UNCHANGED <<migration_locks, held, fresh, OPENAI_AVAILABLE, now, cancel_seen, sse>>

\* mutant: the calls are made inside the lock block, still open when they return
run_process_keeps_lock(job_id, outcome) ==
    /\ task[job_id].pc = "process"
    /\ Acquirable(job_id)
    /\ LET t == task[job_id]
           obj == t.all_objects[t.idx]
       IN  /\ outcome \in Outcomes(obj, t.dry_run)
           /\ migration_jobs' =
                 add_migration_log(job_id,
                     update_migration_progress(job_id, migration_jobs,
                                               [current_object |-> t.idx]),
                     "info", <<"processing", obj.type, t.idx, Len(t.all_objects)>>)
           /\ task' = [task EXCEPT ![job_id].trace = Append(@, outcome),
                                   ![job_id].pc = "record"]
    /\ written' = Tracked
    /\ snapshot' = Aliased
    /\ resp' = NoResp
    /\ held' = held \cup {<<job_id, task[job_id].lock>>}
    /\ UNCHANGED <<migration_locks, fresh, OPENAI_AVAILABLE, now, cancel_seen, sse>>

\* lines 2083-2134: the block that sets current_object, then the synchronous
\* calls for the object, up to the `async with lock:` that records the outcome
run_process(job_id, outcome) ==
    /\ task[job_id].pc = "process"
    /\ Acquirable(job_id)
    /\ LET t == task[job_id]
           obj == t.all_objects[t.idx]
       IN  /\ outcome \in Outcomes(obj, t.dry_run)
           /\ migration_jobs' =
                 add_migration_log(job_id,
                     update_migration_progress(job_id, migration_jobs,
                                               [current_object |-> t.idx]),
                     "info", <<"processing", obj.type, t.idx, Len(t.all_objects)>>)
           /\ task' = [task EXCEPT ![job_id].trace = Append(@, outcome),
                                   ![job_id].pc = "record"]
    /\ written' = Tracked
    /\ snapshot' = Aliased
    /\ resp' = NoResp
    /\ UNCHANGED <<migration_locks, held, fresh, OPENAI_AVAILABLE, now, cancel_seen, sse>>

\* mutant: an object whose translation raised is counted as completed
record_outcome_miscounts(job_id, jobs_dict, idx, type, outcome) ==
    LET job == jobs_dict[job_id]
        done == [completed_objects |-> job.completed_objects + 1]
        fail == [failed_objects |-> job.failed_objects + 1]
        counted == IF outcome = "exec_error" THEN fail ELSE done
        status == CASE outcome = "skipped" -> "skipped"
                    [] outcome \in {"executed", "translated"} -> "success"
                    [] OTHER -> "error"
        error == CASE outcome = "skipped" -> "No source SQL available"
                   [] outcome \in {"executed", "translated"} -> "None"
                   [] OTHER -> outcome
        level == CASE outcome = "skipped" -> "warning"
                   [] outcome \in {"executed", "translated"} -> "info"
                   [] OTHER -> "error"
    IN  add_migration_log(job_id,
            add_object_result(job_id,
                update_migration_progress(job_id, jobs_dict, counted),
                idx, type, status, error),
            level, <<outcome, idx>>)

\* lines 2090-2098, 2136-2144, 2147-2155, 2158-2166, 2169-2177
record_outcome(job_id, jobs_dict, idx, type, outcome) ==
    LET job == jobs_dict[job_id]
        done == [completed_objects |-> job.completed_objects + 1]
        fail == [failed_objects |-> job.failed_objects + 1]
    IN  CASE outcome = "skipped" ->
                 add_migration_log(job_id,
                     add_object_result(job_id,
                         update_migration_progress(job_id, jobs_dict, done),
                         idx, type, "skipped", "No source SQL available"),
                     "warning", <<"skipped", idx>>)
          [] outcome = "executed" ->
                 add_migration_log(job_id,
                     add_object_result(job_id,
                         update_migration_progress(job_id, jobs_dict, done),
                         idx, type, "success", "None"),
                     "info", <<"migrated", idx>>)
          [] outcome = "exec_error" ->
                 add_migration_log(job_id,
                     add_object_result(job_id,
                         update_migration_progress(job_id, jobs_dict, fail),
                         idx, type, "error", "exec_error"),
                     "error", <<"failed", idx>>)
          [] outcome = "translated" ->
                 add_migration_log(job_id,
                     add_object_result(job_id,
                         update_migration_progress(job_id, jobs_dict, done),
                         idx, type, "success", "None"),
                     "info", <<"translated", idx>>)
          [] outcome = "translate_error" ->
                 add_migration_log(job_id,
                     add_object_result(job_id,
                         update_migration_progress(job_id, jobs_dict, fail),
                         idx, type, "error", "translate_error"),
                     "error", <<"translation_error", idx>>)

\* mutant: a missing record is passed over and the loop goes on to the next object
run_record_passes_absent(job_id) ==
    /\ task[job_id].pc = "record"
    /\ Acquirable(job_id)
    /\ LET t == task[job_id]
       IN  /\ migration_jobs' =
                 IF ~Has(migration_jobs, job_id)
                     THEN migration_jobs
                     ELSE record_outcome(job_id, migration_jobs, t.idx,
                                         t.all_objects[t.idx].type, Last(t.trace))
           /\ task' = [task EXCEPT
                 ![job_id].idx = t.idx + 1,
                 ![job_id].pc = IF t.idx = Len(t.all_objects)
                                    THEN "finish" ELSE "check"]
    /\ written' = Tracked
    /\ snapshot' = Aliased
    /\ resp' = NoResp
    /\ UNCHANGED <<migration_locks, held, fresh, OPENAI_AVAILABLE, now, cancel_seen, sse>>

\* The block that records the outcome of the current object.  With the record
\* deleted, reading migration_jobs[job_id] raises KeyError in every branch; the
\* inner handlers raise it again and it reaches the handler of line 2187.
run_record(job_id) ==
    /\ task[job_id].pc = "record"
    /\ Acquirable(job_id)
    /\ LET t == task[job_id]
       IN  IF ~Has(migration_jobs, job_id)
               THEN /\ task' = [task EXCEPT ![job_id].pc = "except"]
                    /\ UNCHANGED migration_jobs
               ELSE /\ migration_jobs' =
                          record_outcome(job_id, migration_jobs, t.idx,
                                         t.all_objects[t.idx].type, Last(t.trace))
                    /\ task' = [task EXCEPT
                          ![job_id].idx = t.idx + 1,
                          ![job_id].pc = IF t.idx = Len(t.all_objects)
                                             THEN "finish" ELSE "check"]
    /\ written' = Tracked
    /\ snapshot' = Aliased
    /\ resp' = NoResp
    /\ UNCHANGED <<migration_locks, held, fresh, OPENAI_AVAILABLE, now, cancel_seen, sse>>

\* mutant: the final block writes its log entry and leaves the status alone
finish_job_only_logs(job_id, jobs_dict) ==
    add_migration_log(job_id, jobs_dict, "info",
        <<"completed", jobs_dict[job_id].completed_objects,
          jobs_dict[job_id].failed_objects>>)

\* mutant: the final block ends the job as cancelled
finish_job_as_cancelled(job_id, jobs_dict) ==
    complete_migration_job(job_id,
        add_migration_log(job_id, jobs_dict, "info",
            <<"completed", jobs_dict[job_id].completed_objects,
              jobs_dict[job_id].failed_objects>>),
        "cancelled")

\* lines 2179-2185
finish_job(job_id, jobs_dict) ==
    complete_migration_job(job_id,
        add_migration_log(job_id, jobs_dict, "info",
            <<"completed", jobs_dict[job_id].completed_objects,
              jobs_dict[job_id].failed_objects>>),
        "completed")

run_finish(job_id) ==
    /\ task[job_id].pc = "finish"
    /\ Acquirable(job_id)
    /\ IF ~Has(migration_jobs, job_id)
           THEN /\ task' = [task EXCEPT ![job_id].pc = "except"]     \* KeyError
                /\ UNCHANGED <<migration_jobs, now>>
           ELSE /\ migration_jobs' = finish_job(job_id, migration_jobs)
                /\ now' = now + 1
                /\ task' = [task EXCEPT ![job_id] = Finished(@)]
    /\ written' = Tracked
    /\ snapshot' = Aliased
    /\ resp' = NoResp
    /\ UNCHANGED <<migration_locks, held, fresh, OPENAI_AVAILABLE, cancel_seen, sse>>

\* mutant: the handler logs the failure twice
run_except_logs_twice(job_id) ==
    /\ task[job_id].pc = "except"
    /\ Acquirable(job_id)
    /\ migration_jobs' =
          complete_migration_job(job_id,
              add_migration_log(job_id,
                  add_migration_log(job_id, migration_jobs, "error", <<"migration_failed">>),
                  "error", <<"migration_failed">>),
              "failed")
    /\ now' = Stamp(migration_jobs, migration_jobs')
    /\ task' = [task EXCEPT ![job_id] = Finished(@)]
    /\ written' = IF Has(migration_jobs', job_id)
                  THEN [written EXCEPT ![job_id] =
                           @ \o SubSeq(migration_jobs'[job_id].logs,
                                       Len(migration_jobs'[job_id].logs) - 1,
                                       Len(migration_jobs'[job_id].logs))]
                  ELSE written
    /\ snapshot' = Aliased
    /\ resp' = NoResp
    /\ UNCHANGED <<migration_locks, held, fresh, OPENAI_AVAILABLE, cancel_seen, sse>>

\* lines 2187-2191
run_except(job_id) ==
    /\ task[job_id].pc = "except"
    /\ Acquirable(job_id)
    /\ migration_jobs' =
          complete_migration_job(job_id,
              add_migration_log(job_id, migration_jobs, "error", <<"migration_failed">>),
              "failed")
    /\ now' = Stamp(migration_jobs, migration_jobs')
    /\ task' = [task EXCEPT ![job_id] = Finished(@)]
    /\ written' = Tracked
    /\ snapshot' = Aliased
    /\ resp' = NoResp
    /\ UNCHANGED <<migration_locks, held, fresh, OPENAI_AVAILABLE, cancel_seen, sse>>

\* ------------------------------------------------------------------ handlers
\* mutant: every status but completed can be cancelled
can_cancel_unless_completed(job) == job.status # "completed"

\* line 1965
can_cancel(job) == job.status = "running"

\* lines 1957-1974
cancel_migration(job_id) ==
    /\ Free(job_id)
    /\ migration_locks' = get_migration_lock(job_id, migration_locks)
    /\ IF ~Has(migration_jobs, job_id)
           THEN /\ resp' = [op |-> "cancel", job_id |-> job_id, http |-> 404]
                /\ UNCHANGED <<migration_jobs, now, cancel_seen>>
           ELSE IF can_cancel(migration_jobs[job_id])
                    THEN /\ migration_jobs' =
                               complete_migration_job(job_id,
                                   add_migration_log(job_id,
                                       [migration_jobs EXCEPT ![job_id].status = "cancelled"],
                                       "warning", <<"cancelled_by_user">>),
                                   "cancelled")
                         /\ now' = now + 1
                         /\ cancel_seen' = [cancel_seen EXCEPT ![job_id] =
                               [pc |-> task[job_id].pc, idx |-> task[job_id].idx]]
                         /\ resp' = [op |-> "cancel", job_id |-> job_id, http |-> 200,
                                     success |-> TRUE]
                    ELSE /\ resp' = [op |-> "cancel", job_id |-> job_id, http |-> 200,
                                     success |-> FALSE,
                                     status |-> migration_jobs[job_id].status]
                         /\ UNCHANGED <<migration_jobs, now, cancel_seen>>
    /\ written' = Tracked
    /\ snapshot' = Aliased
    /\ UNCHANGED <<held, fresh, OPENAI_AVAILABLE, task, sse>>

\* mutant: the lock entry stays in the table
delete_migration_job_keeps_lock(job_id) ==
    /\ Free(job_id)
    /\ migration_jobs' = Put(migration_jobs, job_id, Absent)
    /\ migration_locks' = get_migration_lock(job_id, migration_locks)
    /\ written' = Tracked
    /\ snapshot' = Aliased
    /\ resp' = [op |-> "delete", job_id |-> job_id, http |-> 200, success |-> TRUE]
    /\ UNCHANGED <<held, fresh, OPENAI_AVAILABLE, now, task, cancel_seen, sse>>

\* mutant: the whole lock table is emptied
delete_migration_job_clears_locks(job_id) ==
    /\ Free(job_id)
    /\ migration_jobs' = Put(migration_jobs, job_id, Absent)
    /\ migration_locks' = [j \in Ids |-> NoLock]
    /\ written' = Tracked
    /\ snapshot' = Aliased
    /\ resp' = [op |-> "delete", job_id |-> job_id, http |-> 200, success |-> TRUE]
    /\ UNCHANGED <<held, fresh, OPENAI_AVAILABLE, now, task, cancel_seen, sse>>

\* lines 1976-1985
delete_migration_job(job_id) ==
    /\ Free(job_id)
    /\ migration_jobs' = Put(migration_jobs, job_id, Absent)
    /\ migration_locks' = Put(get_migration_lock(job_id, migration_locks), job_id, NoLock)
    /\ written' = Tracked
    /\ snapshot' = Aliased
    /\ resp' = [op |-> "delete", job_id |-> job_id, http |-> 200, success |-> TRUE]
    /\ UNCHANGED <<held, fresh, OPENAI_AVAILABLE, now, task, cancel_seen, sse>>

\* mutant: the snapshot is taken without the lock
get_migration_progress_without_lock(job_id, kept) ==
    /\ migration_locks' = get_migration_lock(job_id, migration_locks)
    /\ resp' = IF ~Has(migration_jobs, job_id)
                   THEN [op |-> "progress", job_id |-> job_id, http |-> 404]
                   ELSE [op |-> "progress", job_id |-> job_id, http |-> 200,
                         job |-> migration_jobs[job_id]]
    /\ UNCHANGED <<migration_jobs, held, fresh, OPENAI_AVAILABLE, now, task,
                   cancel_seen, sse, written>>
    /\ snapshot' = IF kept /\ Has(migration_jobs, job_id) THEN copy(job_id) ELSE snapshot

\* lines 1933-1942.  kept: the caller holds on to the dict it is returned; the
\* HTTP route hands it to the framework, which serialises it before any other
\* task runs.
get_migration_progress(job_id, kept) ==
    /\ Free(job_id)
    /\ migration_locks' = get_migration_lock(job_id, migration_locks)
    /\ resp' = IF ~Has(migration_jobs, job_id)
                   THEN [op |-> "progress", job_id |-> job_id, http |-> 404]
                   ELSE [op |-> "progress", job_id |-> job_id, http |-> 200,
                         job |-> migration_jobs[job_id]]
    /\ UNCHANGED written
    /\ snapshot' = IF kept /\ Has(migration_jobs, job_id) THEN copy(job_id) ELSE snapshot
    /\ UNCHANGED <<migration_jobs, held, fresh, OPENAI_AVAILABLE, now, task,
                   cancel_seen, sse>>

\* lines 1995-2000: the copy of a record without its logs and outcomes
Summary(job) ==
    [status |-> job.status,
     progress_percentage |-> job.progress_percentage,
     total_objects |-> job.total_objects,
     completed_objects |-> job.completed_objects,
     failed_objects |-> job.failed_objects,
     current_object |-> job.current_object,
     end_time |-> job.end_time,
     log_count |-> Len(job.logs),
     result_count |-> Len(job.object_results)]

\* lines 1987-2002, for a table of at most one record: the loop over the keys has
\* at most one iteration, hence one lock block.
list_migration_jobs ==
    LET keys == {j \in Ids : Has(migration_jobs, j)}
    IN  /\ Cardinality(keys) <= 1
        /\ \A j \in keys : Free(j)
        /\ migration_locks' = [j \in Ids |->
              IF j \in keys THEN get_migration_lock(j, migration_locks)[j]
                            ELSE migration_locks[j]]
        /\ resp' = [op |-> "list", jobs |-> [j \in keys |-> Summary(migration_jobs[j])]]
        /\ UNCHANGED <<migration_jobs, held, fresh, OPENAI_AVAILABLE, now, task,
                       cancel_seen, sse, written>>
        /\ UNCHANGED snapshot

CancelJob == \E job_id \in Created : cancel_migration(job_id)

DeleteJob == \E job_id \in Created : delete_migration_job(job_id)

GetProgress == \E job_id \in Created : get_migration_progress(job_id, FALSE)

\* get_migration_progress awaited by a caller that keeps the result
KeepProgress == \E job_id \in Created : get_migration_progress(job_id, TRUE)

ListJobs == list_migration_jobs

OrchestratorOf(n) ==
    \E job_id \in Uuids :
        \/ \E connected \in BOOLEAN, inventory \in Inventories(n) :
              run_start(job_id, connected, inventory)
        \/ run_no_openai(job_id)
        \/ run_check(job_id)
        \/ \E outcome \in AllOutcomes : run_process(job_id, outcome)
        \/ run_record(job_id)
        \/ run_finish(job_id)
        \/ run_except(job_id)

Orchestrator == OrchestratorOf(MaxObjs)

\* ------------------------------------------------------- generate_sse_events
\* job["logs"][last_sent_log_count:]
SliceFrom(list, count) == SubSeq(list, count + 1, Len(list))

\* mutant: a cancelled job is not taken as finished
is_complete_unless_cancelled(job) == job.status \in {"completed", "failed"}

\* line 147
is_complete(job) == job.status \in {"completed", "failed", "cancelled"}

\* lines 113-164: one iteration of the generator's loop, from taking the lock to the
\* sleep, the break or, when the job is not found, the yield inside the lock block.
\* The first iteration is the one that binds the generator to job_id.
sse_iteration(c, job_id) ==
    /\ \/ sse[c].pc = "idle"
       \/ sse[c].pc = "polling" /\ sse[c].job_id = job_id
    /\ Free(job_id)
    /\ migration_locks' = get_migration_lock(job_id, migration_locks)
    /\ IF ~Has(migration_jobs, job_id)
           THEN /\ sse' = [sse EXCEPT ![c].pc = "error_yield",
                                      ![c].job_id = job_id,
                                      ![c].lock = migration_locks'[job_id],
                                      ![c].errors = @ + 1]
                /\ held' = held \cup {<<job_id, migration_locks'[job_id]>>}
           ELSE LET job == migration_jobs[job_id]
                    new_logs == SliceFrom(job.logs, sse[c].last_sent_log_count)
                    new_results == SliceFrom(job.object_results,
                                             sse[c].last_sent_result_count)
                    complete == is_complete(job)
                IN  /\ sse' = [sse EXCEPT
                          ![c].job_id = job_id,
                          ![c].got_logs = @ \o new_logs,
                          ![c].got_results = @ \o new_results,
                          ![c].frame = [status |-> job.status,
                                        progress_percentage |-> job.progress_percentage,
                                        completed_objects |-> job.completed_objects,
                                        failed_objects |-> job.failed_objects],
                          ![c].last_sent_log_count = @ + Len(new_logs),
                          ![c].last_sent_result_count = @ + Len(new_results),
                          ![c].completes = IF complete THEN @ + 1 ELSE @,
                          ![c].pc = IF complete THEN "closed" ELSE "polling"]
                    /\ UNCHANGED held
    /\ resp' = NoResp
    /\ UNCHANGED written
    /\ UNCHANGED snapshot
    /\ UNCHANGED <<migration_jobs, fresh, OPENAI_AVAILABLE, now, task, cancel_seen>>

\* mutant: the generator leaves the lock block and goes on polling
sse_break_keeps_polling(c) ==
    /\ sse[c].pc = "error_yield"
    /\ held' = held \ {<<sse[c].job_id, sse[c].lock>>}
    /\ sse' = [sse EXCEPT ![c].pc = "polling", ![c].lock = NoLock]
    /\ resp' = NoResp
    /\ UNCHANGED <<migration_jobs, migration_locks, fresh, OPENAI_AVAILABLE, now, task,
                   cancel_seen, written>>
    /\ UNCHANGED snapshot

\* lines 119-120: the generator is resumed after the error frame, breaks out of the
\* loop and leaves the lock block
sse_break(c) ==
    /\ sse[c].pc = "error_yield"
    /\ held' = held \ {<<sse[c].job_id, sse[c].lock>>}
    /\ sse' = [sse EXCEPT ![c].pc = "closed", ![c].lock = NoLock]
    /\ resp' = NoResp
    /\ UNCHANGED written
    /\ UNCHANGED snapshot
    /\ UNCHANGED <<migration_jobs, migration_locks, fresh, OPENAI_AVAILABLE, now, task,
                   cancel_seen>>

StreamProgressOf(callers) ==
    \E c \in callers :
        \/ \E job_id \in Created : sse_iteration(c, job_id)
        \/ sse_break(c)

StreamProgress == StreamProgressOf(Consumers)

\* ------------------------------------------------------------ specifications
Quiet == /\ migration_jobs = [j \in Ids |-> Absent]
         /\ migration_locks = [j \in Ids |-> NoLock]
         /\ held = {}
         /\ OPENAI_AVAILABLE \in BOOLEAN
         /\ now = 1
         /\ task = [j \in Ids |-> NoTask]
         /\ cancel_seen = [j \in Ids |-> [pc |-> "none", idx |-> 0]]
         /\ sse = [c \in Consumers |-> NoStream]
         /\ written = [j \in Ids |-> <<>>]
         /\ snapshot = NoSnapshot
         /\ resp = NoResp

\* One job, its orchestrator and the handlers.
Init == Quiet /\ fresh = {"j1"}

Next == StartJob \/ Orchestrator \/ CancelJob \/ DeleteJob

Spec == Init /\ [][Next]_vars

\* The same with a caller that polls GetProgress.
PollNext == Next \/ GetProgress

SpecPoll == Init /\ [][PollNext]_vars

\* One job of at most StreamObjs objects, CancelJob, DeleteJob and the consumers
\* of its progress stream.
StreamNext == StartJobOf(StreamObjs) \/ OrchestratorOf(StreamObjs) \/ CancelJob
              \/ DeleteJob \/ StreamProgress

SpecStream == Init /\ [][StreamNext]_vars

\* generate_sse_events sleeps 0.5 s and takes the lock again for as long as its
\* caller keeps reading the stream: an attached generator whose lock is free gets
\* its next iteration, and a generator suspended at the error frame is resumed.
FairStream ==
    \A c \in Consumers :
        /\ WF_vars(sse[c].pc = "polling" /\ sse_iteration(c, sse[c].job_id))
        /\ WF_vars(sse_break(c))

\* One job of at most StreamObjs objects with every handler and one consumer of
\* its stream, which keeps reading.
ObserveNext == StartJobOf(StreamObjs) \/ OrchestratorOf(StreamObjs) \/ CancelJob
               \/ DeleteJob \/ GetProgress \/ ListJobs \/ StreamProgressOf({"c1"})

SpecObserve == Init /\ [][ObserveNext]_vars /\ FairStream

\* initialize_migration_job called with a job_id the table already holds: the
\* function has no test of job_id, returns None and raises nothing
\* (migration_progress.py 19-39).  The lists of the old record are left to whoever
\* still holds them.
initialize_existing(job_id, total_objects) ==
    /\ Has(migration_jobs, job_id)
    /\ Free(job_id)
    /\ migration_jobs' = initialize_migration_job(job_id, migration_jobs, total_objects)
    /\ written' = [written EXCEPT ![job_id] = <<>>]
    /\ snapshot' = IF snapshot.job_id = job_id
                       THEN [snapshot EXCEPT !.logs = snapshot_logs,
                                             !.object_results = snapshot_object_results,
                                             !.logs_shared = FALSE,
                                             !.results_shared = FALSE]
                       ELSE snapshot
    /\ resp' = [op |-> "create", job_id |-> job_id, raised |-> FALSE]
    /\ UNCHANGED <<migration_locks, held, fresh, OPENAI_AVAILABLE, now, task,
                   cancel_seen, sse>>

CreateAgain == \E job_id \in Created, total_objects \in 0..StreamObjs :
                  /\ now < MaxClock
                  /\ initialize_existing(job_id, total_objects)

\* One job of at most StreamObjs objects, CancelJob, and a second create on its id.
CreateNext == StartJobOf(StreamObjs) \/ OrchestratorOf(StreamObjs) \/ CancelJob
              \/ CreateAgain

SpecCreate == Init /\ [][CreateNext]_vars

\* One job of at most StreamObjs objects, the handlers, and a caller that keeps the
\* dict of its last GetProgress.
KeepNext == StartJobOf(StreamObjs) \/ OrchestratorOf(StreamObjs) \/ CancelJob
            \/ DeleteJob \/ KeepProgress

SpecKeep == Init /\ [][KeepNext]_vars

\* One job of at most OrderObjs objects, enough for an inventory with a table, a
\* view and a procedure, and CancelJob.
OrderNext == StartJobOf(OrderObjs) \/ OrchestratorOf(OrderObjs) \/ CancelJob

SpecOrder == Init /\ [][OrderNext]_vars

\* The same system with the orchestrator task scheduled fairly: asyncio runs a task
\* created by asyncio.create_task (main.py 1918) whenever it is ready, and every
\* call it makes returns or raises.
SpecLive == SpecObserve /\ WF_vars(OrchestratorOf(StreamObjs))

\* A job in the middle of a long inventory: the state the orchestrator reaches from
\* StartJob after it recorded the first LogPrefix objects (tables with source text,
\* all migrated), so that the objects that follow take the log over its cap.
LogPrefix == LogCap \div 2 - 1

\* The two blocks of one iteration (2084-2087, then the block of the outcome).
Iteration(job_id, jobs_dict, all_objects, outcome, k) ==
    record_outcome(job_id,
        add_migration_log(job_id,
            update_migration_progress(job_id, jobs_dict, [current_object |-> k]),
            "info", <<"processing", all_objects[k].type, k, Len(all_objects)>>),
        k, all_objects[k].type, outcome)

\* The iterations lo..hi in order, by halves.
RECURSIVE Replay(_, _, _, _, _, _)
Replay(job_id, jobs_dict, all_objects, outcome, lo, hi) ==
    IF lo > hi THEN jobs_dict
    ELSE IF lo = hi THEN Iteration(job_id, jobs_dict, all_objects, outcome, lo)
    ELSE LET mid == (lo + hi) \div 2
             half == Replay(job_id, jobs_dict, all_objects, outcome, lo, mid)
         IN  IF Has(half, job_id)
                 THEN Replay(job_id, half, all_objects, outcome, mid + 1, hi)
                 ELSE half

Started(job_id, total_objects) ==
    add_migration_log(job_id,
        initialize_migration_job(job_id, [j \in Ids |-> Absent], total_objects),
        "info", <<"started", total_objects>>)

LogJobOf(tail) ==
    /\ fresh = {}
    /\ migration_locks = [j \in Ids |-> IF j = "j1" THEN 1 ELSE NoLock]
    /\ held = {}
    /\ OPENAI_AVAILABLE = TRUE
    /\ now = 1
    /\ cancel_seen = [j \in Ids |-> [pc |-> "none", idx |-> 0]]
    /\ snapshot = NoSnapshot
    /\ resp = NoResp
    /\ \E dry_run \in BOOLEAN, inventory \in Inventories(tail) :
          LET all_objects == [i \in 1..LogPrefix |-> [type |-> "TABLE", src |-> TRUE]]
                             \o all_objects_of(inventory)
              outcome == IF dry_run THEN "translated" ELSE "executed"
          IN  /\ Len(all_objects_of(inventory)) = tail
              /\ migration_jobs = Replay("j1", Started("j1", Len(all_objects)),
                                         all_objects, outcome, 1, LogPrefix)
              /\ task = [j \in Ids |->
                    IF j = "j1"
                        THEN [pc |-> "check", lock |-> 1, resolved |-> TRUE,
                              all_objects |-> all_objects, idx |-> LogPrefix + 1,
                              dry_run |-> dry_run,
                              trace |-> [i \in 1..LogPrefix |-> outcome]]
                        ELSE NoTask]
              /\ written = [j \in Ids |-> IF j = "j1" THEN migration_jobs[j].logs
                                           ELSE <<>>]

LogInit == LogJobOf(LogTail) /\ sse = [c \in Consumers |-> NoStream]

LogNext ==
    \/ \E job_id \in Created :
          \/ run_check(job_id)
          \/ \E outcome \in AllOutcomes : run_process(job_id, outcome)
          \/ run_record(job_id)
          \/ run_finish(job_id)
    \/ CancelJob

\* The orchestrator and CancelJob on a job whose log is about to reach its cap.
SpecLog == LogInit /\ [][LogNext]_vars

\* The same job with consumer c1 attached since StartJob: its last tick came after
\* the block that recorded object LogPrefix, so it has been sent the whole log and
\* every outcome.
LogStreamInit ==
    /\ LogJobOf(StreamTail)
    /\ sse = [c \in Consumers |->
          IF c = "c1"
              THEN [NoStream EXCEPT
                      !.pc = "polling", !.job_id = "j1",
                      !.last_sent_log_count = Len(migration_jobs["j1"].logs),
                      !.last_sent_result_count = Len(migration_jobs["j1"].object_results),
                      !.got_logs = migration_jobs["j1"].logs,
                      !.got_results = migration_jobs["j1"].object_results,
                      !.frame = [status |-> migration_jobs["j1"].status,
                                 progress_percentage |->
                                     migration_jobs["j1"].progress_percentage,
                                 completed_objects |->
                                     migration_jobs["j1"].completed_objects,
                                 failed_objects |-> migration_jobs["j1"].failed_objects]]
              ELSE NoStream]

Attached == {c \in Consumers : sse[c].pc = "polling"}

LogStreamNext ==
    \/ LogNext
    \/ \E c \in Attached : sse_iteration(c, sse[c].job_id)

SpecLogStream == LogStreamInit /\ [][LogStreamNext]_vars

\* Two jobs: "j2" was started with an empty inventory and its orchestrator has
\* finished (lines 2012-2016 without the translation client, 2179-2185 with it);
\* "j1" is still to be started.
PairInit ==
    /\ fresh = {"j1"}
    /\ migration_locks = [j \in Ids |-> IF j = "j2" THEN 1 ELSE NoLock]
    /\ held = {}
    /\ OPENAI_AVAILABLE \in BOOLEAN
    /\ now = 2
    /\ cancel_seen = [j \in Ids |-> [pc |-> "none", idx |-> 0]]
    /\ sse = [c \in Consumers |-> NoStream]
    /\ snapshot = NoSnapshot
    /\ resp = NoResp
    /\ migration_jobs =
          LET ended == IF OPENAI_AVAILABLE
                           THEN finish_job("j2", Started("j2", 0))
                           ELSE complete_migration_job("j2",
                                    add_migration_log("j2", Started("j2", 0),
                                                      "error", <<"no_openai">>),
                                    "failed")
          IN  [ended EXCEPT !["j2"].end_time = 1]
    /\ task = [j \in Ids |->
          IF j = "j2"
              THEN [NoTask EXCEPT !.pc = "done",
                                  !.resolved = OPENAI_AVAILABLE,
                                  !.idx = IF OPENAI_AVAILABLE THEN 1 ELSE 0]
              ELSE NoTask]
    /\ written = [j \in Ids |-> IF j = "j2" THEN migration_jobs[j].logs ELSE <<>>]

\* The second job of at most StreamObjs objects beside the first, the handlers on
\* either, and one consumer of either stream.
PairNext == StartJobOf(StreamObjs) \/ OrchestratorOf(StreamObjs) \/ CancelJob
            \/ DeleteJob \/ StreamProgressOf({"c1"})

SpecPair == PairInit /\ [][PairNext]_vars


\* ==================================================================== claims
Jobs == {j \in Uuids : Has(migration_jobs, j)}

Job(j) == migration_jobs[j]

\* C1: once the status of a job is completed, failed or cancelled, no step changes
\* it while the record exists.
C1_TerminalAbsorbing ==
    [][\A j \in Uuids :
          (Has(migration_jobs, j) /\ Has(migration_jobs', j)
           /\ migration_jobs[j].status \in Terminal)
          => migration_jobs'[j].status = migration_jobs[j].status]_vars

\* C2: for every job, 0 <= completed_objects + failed_objects <= total_objects and
\* 0 <= progress_percentage <= 100.
C2_CountersWithinTotal ==
    \A j \in Jobs :
        /\ 0 <= Job(j).completed_objects + Job(j).failed_objects
        /\ Job(j).completed_objects + Job(j).failed_objects <= Job(j).total_objects
        /\ 0 <= Job(j).progress_percentage
        /\ Job(j).progress_percentage <= 100

\* C3: in every state in which no writer holds the job lock (every state between
\* two steps), progress_percentage is 100 exactly when the status is terminal.
C3_HundredIffTerminal ==
    \A j \in Jobs : (Job(j).progress_percentage = 100) <=> (Job(j).status \in Terminal)

\* C4: end_time is null exactly while the status is running, and once written it is
\* never written again.
C4_EndTimeWrittenOnce ==
    [][\A j \in Uuids :
          (Has(migration_jobs, j) /\ Has(migration_jobs', j))
          => /\ (migration_jobs'[j].status = "running")
                   <=> (migration_jobs'[j].end_time = NoTime)
             /\ (migration_jobs[j].end_time # NoTime
                   => migration_jobs'[j].end_time = migration_jobs[j].end_time)]_vars

\* C5: a CancelJob step reports success exactly when the status it finds is
\* running; on a job whose status is completed, failed or cancelled it reports
\* failure and leaves the whole record as it was.
C5_CancelOnlyRunning ==
    [][\A j \in Uuids :
          (resp'.op = "cancel" /\ resp'.job_id = j /\ Has(migration_jobs, j))
          => /\ resp'.success <=> (migration_jobs[j].status = "running")
             /\ migration_jobs[j].status \in Terminal
                   => migration_jobs'[j] = migration_jobs[j]]_vars

C5_Witness ==
    \E j \in Jobs :
        /\ resp.op = "cancel" /\ resp.job_id = j /\ resp.http = 200 /\ ~resp.success
        /\ Job(j).status \in {"completed", "failed"}
        /\ Job(j).object_results # <<>>

\* The number of outcomes recorded when CancelJob took effect between two objects
\* (before the cancellation check of the next object); -1 when CancelJob did not
\* take effect there.
CancelBoundary(j) ==
    CASE cancel_seen[j].pc = "start" -> 0
      [] cancel_seen[j].pc = "check" -> cancel_seen[j].idx - 1
      [] OTHER -> -1

\* C6: in a dry-run job of n objects, when CancelJob takes effect after the outcome
\* of object k < n is recorded and before the cancellation check of object k+1, the
\* status is cancelled from then on, exactly k outcomes are recorded and counted,
\* and no object after k is attempted, up to and including the end of the task.
C6_CancelBetweenObjects ==
    \A j \in Jobs :
        LET k == CancelBoundary(j)
        IN  (task[j].dry_run /\ task[j].resolved
             /\ 0 <= k /\ k < Len(task[j].all_objects))
            => /\ Job(j).status = "cancelled"
               /\ Job(j).completed_objects + Job(j).failed_objects = k
               /\ Len(Job(j).object_results) = k
               /\ Len(task[j].trace) = k
               /\ task[j].pc \in {"check", "done"}

C6_Witness ==
    \E j \in Jobs :
        /\ task[j].dry_run /\ task[j].pc = "done"
        /\ CancelBoundary(j) = 1 /\ Len(task[j].all_objects) > 1
        /\ Len(Job(j).object_results) = 1

\* The objects whose translation or execution raised.
FailedSet(j) ==
    {i \in 1..Len(task[j].trace) : task[j].trace[i] \in {"translate_error", "exec_error"}}

\* C7: a job of n objects that all carry source text, neither cancelled nor deleted,
\* ends completed whatever set F of objects fails, with failed_objects = |F|,
\* completed_objects = n - |F| and n outcomes in processing order that are errors
\* exactly at the positions in F.
C7_FailuresIsolated ==
    \A j \in Jobs :
        LET n == Len(task[j].all_objects)
            results == Job(j).object_results
        IN  (task[j].pc = "done" /\ task[j].resolved
             /\ cancel_seen[j].pc = "none"
             /\ \A i \in 1..n : task[j].all_objects[i].src)
            => /\ Job(j).status = "completed"
               /\ Job(j).failed_objects = Cardinality(FailedSet(j))
               /\ Job(j).completed_objects = n - Cardinality(FailedSet(j))
               /\ Len(results) = n
               /\ \A i \in 1..n :
                     /\ results[i].object_name = i
                     /\ (results[i].status = "error") <=> (i \in FailedSet(j))

C7_Witness ==
    \E j \in Jobs :
        /\ task[j].pc = "done" /\ task[j].resolved /\ cancel_seen[j].pc = "none"
        /\ Len(task[j].all_objects) >= 2
        /\ \A i \in 1..Len(task[j].all_objects) : task[j].all_objects[i].src
        /\ 1 \notin FailedSet(j) /\ 2 \in FailedSet(j)
        /\ Job(j).status = "completed"

C7_WitnessAllFail ==
    \E j \in Jobs :
        /\ task[j].pc = "done" /\ cancel_seen[j].pc = "none"
        /\ Len(task[j].all_objects) >= 2
        /\ FailedSet(j) = 1..Len(task[j].all_objects)
        /\ Job(j).failed_objects = Job(j).total_objects

\* C8: a job whose object list is empty (total_objects = 0) ends completed with
\* progress_percentage 100, both counters 0, no outcome, and no object attempted.
C8_EmptyJobCompletes ==
    \A j \in Jobs :
        (task[j].pc = "done" /\ task[j].resolved /\ task[j].all_objects = <<>>
         /\ Job(j).total_objects = 0)
        => /\ Job(j).status = "completed"
           /\ Job(j).progress_percentage = 100
           /\ Job(j).completed_objects = 0
           /\ Job(j).failed_objects = 0
           /\ Job(j).object_results = <<>>
           /\ task[j].trace = <<>>

C8_Witness ==
    \E j \in Jobs :
        /\ task[j].pc = "done" /\ task[j].resolved /\ task[j].all_objects = <<>>
        /\ Job(j).total_objects = 0 /\ Job(j).status = "completed"
        /\ cancel_seen[j].pc = "none"

\* A step of the orchestrator of job j that appends a log entry: the blocks that set
\* current_object, record an outcome or finish the job.
Logging(j) == task[j].pc \in {"process", "record", "finish"} /\ task'[j].pc # task[j].pc

\* A CancelJob of job j that takes effect.
Cancelling(j) == resp'.op = "cancel" /\ resp'.job_id = j /\ resp'.success

\* C9: the log of a job never holds more than LogCap entries; a step that appends to
\* a log of fewer entries extends it by the new entry, a step that appends to a full
\* log drops its first entry, keeps the others in order and puts the new entry last.
C9_LogRing ==
    [][\A j \in Uuids :
          (Has(migration_jobs, j) /\ Has(migration_jobs', j))
          => LET old == migration_jobs[j].logs
                 new == migration_jobs'[j].logs
                 kept == IF Len(old) < LogCap THEN old ELSE Tail(old)
             IN  /\ Len(old) <= LogCap
                 /\ Len(new) <= LogCap
                 /\ Cancelling(j)
                       => new = kept \o <<[level |-> "warning",
                                           message |-> <<"cancelled_by_user">>]>>
                 /\ Logging(j)
                       => /\ new = kept \o <<Last(new)>>
                          /\ task[j].pc = "process" => Last(new).message[3] = task[j].idx
                          /\ task[j].pc = "record" => Last(new).message[2] = task[j].idx
                          /\ task[j].pc = "finish" => Last(new).message[1] = "completed"
                 /\ Len(new) = Len(old) + 1 \/ Len(new) = Len(old)
                 /\ Len(old) < LogCap => SubSeq(new, 1, Len(old)) = old]_vars

C9_Witness ==
    \E j \in Jobs :
        /\ task[j].pc = "done"
        /\ Len(Job(j).logs) = LogCap
        /\ Job(j).logs[1].message # <<"started", Job(j).total_objects>>
        /\ Last(Job(j).logs).message[1] = "completed"

\* A consumer whose stream has ended with its complete frame, for a job whose
\* orchestrator has finished and whose record is still in the table.
Served(c) ==
    /\ sse[c].pc = "closed"
    /\ sse[c].completes = 1
    /\ Has(migration_jobs, sse[c].job_id)
    /\ task[sse[c].job_id].pc = "done"

Delivered(c) ==
    /\ sse[c].got_logs = Job(sse[c].job_id).logs
    /\ sse[c].got_results = Job(sse[c].job_id).object_results

\* C10: two consumers of the same job's stream each receive every log entry and
\* every outcome of the job exactly once and in append order across their frames,
\* and the watermarks of a consumer never decrease.
C10_EveryEntryOnce ==
    [][\A c \in Consumers :
          /\ sse'[c].last_sent_log_count >= sse[c].last_sent_log_count
          /\ sse'[c].last_sent_result_count >= sse[c].last_sent_result_count
          /\ (Served(c) => Delivered(c))']_vars

\* C11: a consumer attached from the creation of the job to its complete frame has
\* received, over all its frames, exactly the log entries appended to the job, also
\* when the job appends more than LogCap entries (here for a job that is not
\* cancelled).
C11_NoLogMissed ==
    \A c \in Consumers :
        (Served(c) /\ cancel_seen[sse[c].job_id].pc = "none")
        => sse[c].got_logs = written[sse[c].job_id]

\* Consumer c is attached to job j, whose record holds a terminal status.
Owed(c, j) ==
    /\ sse[c].pc = "polling" /\ sse[c].job_id = j
    /\ Has(migration_jobs, j) /\ Job(j).status \in Terminal

\* Each stream emits at most one complete frame, it is its last frame, and it is
\* not emitted while the status the frame carries is running.
CompleteIsLast ==
    [][\A c \in Consumers :
          /\ sse[c].completes <= 1
          /\ sse'[c].completes = 1 => (sse'[c].pc = "closed"
                                        /\ sse'[c].frame.status \in Terminal)
          /\ sse[c].pc = "closed" => sse'[c] = sse[c]]_vars

\* C12 as stated: once the status of a job is terminal, every consumer attached to
\* it eventually emits its complete frame, and CompleteIsLast.
C12_CompleteAlways ==
    /\ \A c \in Consumers, j \in Uuids : Owed(c, j) ~> (sse[c].completes = 1)
    /\ CompleteIsLast

\* C12: once the status of a job is terminal, every consumer attached to it
\* eventually emits its complete frame unless the record is deleted first, and
\* each stream emits at most one complete frame, which is its last frame and does
\* not carry status running.
C12_CompleteUnlessDeleted ==
    /\ \A c \in Consumers, j \in Uuids :
          Owed(c, j) ~> (sse[c].completes = 1 \/ ~Has(migration_jobs, j))
    /\ CompleteIsLast

C12_Witness ==
    \E c \in Consumers :
        /\ sse[c].pc = "closed" /\ sse[c].completes = 1 /\ sse[c].errors = 0
        /\ sse[c].frame.status = "cancelled"
        /\ sse[c].got_results # <<>>

\* GetProgress on an id without record answers 404; a stream started on such an id
\* emits the error frame and nothing else.
DeletedIsNotFound ==
    [][/\ (resp'.op = "progress" /\ ~Has(migration_jobs, resp'.job_id))
             => resp'.http = 404
       /\ \A c \in Consumers :
             /\ (sse[c].pc = "idle" /\ sse'[c].pc # "idle"
                 /\ ~Has(migration_jobs, sse'[c].job_id))
                => (sse'[c].pc = "error_yield" /\ sse'[c].errors = 1
                    /\ sse'[c].frame = NoFrame)
             /\ sse[c].pc = "error_yield"
                => (sse'[c] = sse[c]
                    \/ sse'[c] = [sse[c] EXCEPT !.pc = "closed", !.lock = NoLock])
             /\ sse[c].pc = "closed" => sse'[c] = sse[c]]_vars

\* C13: after DeleteJob(job_id), GetProgress(job_id) answers not found, and a
\* stream started on that id emits one error frame, no progress frame, and
\* terminates.
C13_DeletedIsNotFound ==
    /\ DeletedIsNotFound
    /\ \A c \in Consumers : (sse[c].pc = "error_yield") ~> (sse[c].pc = "closed")

C13_Witness ==
    \E c \in Consumers :
        /\ sse[c].pc = "closed" /\ sse[c].errors = 1 /\ sse[c].frame = NoFrame
        /\ sse[c].completes = 0 /\ sse[c].got_logs = <<>>
        /\ sse[c].job_id \in Created
        /\ resp.op = "progress" /\ resp.job_id = sse[c].job_id /\ resp.http = 404

\* C14: a DeleteJob step leaves neither the record nor the lock entry of the job,
\* whatever its status; a consumer that is mid-stream on a deleted job emits the
\* error frame at its next tick, nothing else, and then stops.
C14_DeleteEndsStreams ==
    /\ [][/\ \A j \in Uuids :
                (resp'.op = "delete" /\ resp'.job_id = j)
                => (~Has(migration_jobs', j) /\ ~HasLock(migration_locks', j))
          /\ \A c \in Consumers :
                /\ (sse[c].pc = "polling" /\ sse'[c] # sse[c]
                    /\ ~Has(migration_jobs, sse[c].job_id))
                   => sse'[c] = [sse[c] EXCEPT !.pc = "error_yield",
                                              !.lock = migration_locks'[sse[c].job_id],
                                              !.errors = 1]
                /\ (sse[c].pc = "error_yield" /\ sse'[c] # sse[c])
                   => sse'[c] = [sse[c] EXCEPT !.pc = "closed", !.lock = NoLock]
                /\ sse[c].pc = "closed" => sse'[c] = sse[c]]_vars
    /\ \A c \in Consumers :
          (sse[c].pc = "polling" /\ ~Has(migration_jobs, sse[c].job_id))
          ~> (sse[c].pc = "closed" /\ sse[c].errors = 1)

\* a consumer that saw the job running, stopped on the error frame of a job
\* deleted while its orchestrator was at work
C14_Witness ==
    \E c \in Consumers :
        /\ sse[c].pc = "closed" /\ sse[c].errors = 1 /\ sse[c].completes = 0
        /\ sse[c].frame # NoFrame /\ sse[c].frame.status = "running"
        /\ ~Has(migration_jobs, sse[c].job_id)
        /\ ~HasLock(migration_locks, sse[c].job_id)
        /\ cancel_seen[sse[c].job_id].pc = "none"
        /\ task[sse[c].job_id].pc \in {"check", "process", "record", "finish"}

\* C15: what an observer reads never goes backwards.  GetProgress returns the
\* record as it stands between two steps, so two successive snapshots are the
\* record in two states of a behaviour: from one state to the next, while the
\* record exists, completed_objects, failed_objects, progress_percentage, the
\* number of log entries written and the number of outcomes do not decrease.
C15_MonotonicProgress ==
    [][\A j \in Uuids :
          (Has(migration_jobs, j) /\ Has(migration_jobs', j))
          => /\ migration_jobs'[j].completed_objects >= migration_jobs[j].completed_objects
             /\ migration_jobs'[j].failed_objects >= migration_jobs[j].failed_objects
             /\ migration_jobs'[j].progress_percentage
                   >= migration_jobs[j].progress_percentage
             /\ Len(written'[j]) >= Len(written[j])
             /\ Len(migration_jobs'[j].object_results)
                   >= Len(migration_jobs[j].object_results)]_vars

\* C16: when StartJob returns the job id, the record of the job exists with status
\* running, counters and percentage 0, no outcome and the total StartJob counted,
\* and the orchestrator of the job has not run: it has attempted no object.
C16_StartReturnsAtOnce ==
    [][resp'.op = "start"
       => LET j == resp'.job_id
          IN  /\ resp'.success
              /\ ~Has(migration_jobs, j)
              /\ Has(migration_jobs', j)
              /\ migration_jobs'[j].status = "running"
              /\ migration_jobs'[j].total_objects = resp'.total_objects
              /\ migration_jobs'[j].completed_objects = 0
              /\ migration_jobs'[j].failed_objects = 0
              /\ migration_jobs'[j].progress_percentage = 0
              /\ migration_jobs'[j].current_object = NoObject
              /\ migration_jobs'[j].end_time = NoTime
              /\ migration_jobs'[j].object_results = <<>>
              /\ Len(migration_jobs'[j].logs) = 1
              /\ task'[j].pc = "start"
              /\ task'[j].trace = <<>>
              /\ ~task'[j].resolved]_vars

C16_Witness ==
    /\ resp.op = "start" /\ resp.success /\ resp.total_objects >= 1
    /\ Has(migration_jobs, resp.job_id)
    /\ task[resp.job_id].pc = "start"

\* C17: GetProgress, CancelJob and DeleteJob on a job_id that has no record answer
\* not found (404), never success; an iteration of a stream on such an id emits the
\* error frame; none of them creates a record.
C17_NotFoundDistinct ==
    [][/\ (resp'.op \in {"progress", "cancel", "delete"}
           /\ ~Has(migration_jobs, resp'.job_id))
          => (resp'.http = 404 /\ migration_jobs' = migration_jobs)
       /\ \A c \in Consumers :
             (sse'[c] # sse[c] /\ sse[c].pc \in {"idle", "polling"}
              /\ ~Has(migration_jobs, sse'[c].job_id))
             => (sse'[c].errors = sse[c].errors + 1
                 /\ sse'[c].frame = sse[c].frame
                 /\ migration_jobs' = migration_jobs)]_vars

\* C18: the status of a job becomes cancelled only in a CancelJob step on that job
\* that reports success; no step of the orchestrator sets it.
C18_CancelledOnlyByCancelJob ==
    [][\A j \in Uuids :
          (Has(migration_jobs', j) /\ migration_jobs'[j].status = "cancelled"
           /\ (~Has(migration_jobs, j) \/ migration_jobs[j].status # "cancelled"))
          => (resp'.op = "cancel" /\ resp'.job_id = j /\ resp'.success
              /\ task'[j] = task[j])]_vars

\* a job cancelled while its orchestrator was between two blocks of an object
C18_Witness ==
    \E j \in Jobs :
        /\ Job(j).status = "cancelled"
        /\ resp.op = "cancel" /\ resp.job_id = j /\ resp.success
        /\ task[j].pc = "record"

\* C19: when CancelJob takes effect while object i is in flight (after its
\* cancellation check, before its outcome is recorded), the outcome of object i is
\* still recorded, no object after i is attempted, and the job ends cancelled.
C19_CooperativeCancel ==
    \A j \in Jobs :
        LET i == cancel_seen[j].idx
        IN  cancel_seen[j].pc \in {"process", "record"}
            => /\ Len(task[j].trace) <= i
               /\ task[j].pc = "done"
                     => /\ Len(task[j].trace) = i
                        /\ Len(Job(j).object_results) = i
                        /\ Job(j).object_results[i].object_name = i
                        /\ Job(j).status = "cancelled"

\* The step that records the outcome of the current object of job j, which has no
\* source text.
RecordsSkipped(j) ==
    /\ Has(migration_jobs, j)
    /\ task[j].pc = "record" /\ task'[j].pc # "record"
    /\ ~task[j].all_objects[task[j].idx].src

\* The step appends the outcome skipped with its reason, leaves failed_objects and
\* the status alone and goes on with the next object (or the final block).
SkippedOutcome(j) ==
    /\ Last(task[j].trace) = "skipped"
    /\ migration_jobs'[j].object_results =
          Append(migration_jobs[j].object_results,
                 [object_name |-> task[j].idx,
                  object_type |-> task[j].all_objects[task[j].idx].type,
                  status |-> "skipped",
                  error |-> "No source SQL available"])
    /\ migration_jobs'[j].failed_objects = migration_jobs[j].failed_objects
    /\ migration_jobs'[j].status = migration_jobs[j].status
    /\ task'[j].idx = task[j].idx + 1
    /\ task'[j].trace = task[j].trace
    /\ task'[j].pc = IF task[j].idx < Len(task[j].all_objects) THEN "check" ELSE "finish"

\* C20 as stated: processing an object without source text appends one outcome
\* skipped with reason 'No source SQL available', changes neither completed_objects
\* nor failed_objects, and continues with the next object.
C20_SkipCountsNothing ==
    [][\A j \in Uuids :
          RecordsSkipped(j)
          => /\ SkippedOutcome(j)
             /\ migration_jobs'[j].completed_objects
                   = migration_jobs[j].completed_objects]_vars

\* C20: processing an object without source text appends one outcome skipped with
\* reason 'No source SQL available', adds one to completed_objects, leaves
\* failed_objects unchanged, and continues with the next object.
C20_SkipCountsCompleted ==
    [][\A j \in Uuids :
          RecordsSkipped(j)
          => /\ SkippedOutcome(j)
             /\ migration_jobs'[j].completed_objects
                   = migration_jobs[j].completed_objects + 1]_vars

\* a skipped first object followed by a second object that was processed
C20_Witness ==
    \E j \in Jobs :
        /\ Len(Job(j).object_results) = 2
        /\ Job(j).object_results[1].status = "skipped"
        /\ Job(j).object_results[2].status = "success"
        /\ Job(j).completed_objects = 2
        /\ cancel_seen[j].pc = "none"

WriterHolds(j) ==
    /\ Free(j)
    /\ resp'.op = "none"
          => (task[j].lock # NoLock /\ task[j].lock = migration_locks[j])
    /\ resp'.op # "none"
          => (resp'.op \in {"start", "cancel", "delete"} /\ resp'.job_id = j)

\* C23: every step that changes a job record (creation and deletion included) is
\* taken by StartJob, the orchestrator, CancelJob or DeleteJob with that job's lock,
\* and GetProgress, ListJobs and every stream iteration read the record with the
\* lock taken and return its value at that moment.
C23_AccessUnderLock ==
    [][/\ \A j \in Uuids : migration_jobs'[j] # migration_jobs[j] => WriterHolds(j)
       /\ resp'.op = "progress"
             => /\ Free(resp'.job_id)
                /\ resp'.http = 200 => resp'.job = migration_jobs[resp'.job_id]
       /\ resp'.op = "list"
             => \A j \in DOMAIN resp'.jobs :
                   Free(j) /\ resp'.jobs[j] = Summary(migration_jobs[j])
       /\ \A c \in Consumers :
             (sse'[c] # sse[c] /\ sse[c].pc \in {"idle", "polling"})
             => Free(sse'[c].job_id)]_vars

\* ListJobs reads the record of a job that StartJob created, the orchestrator
\* wrote an outcome to and CancelJob cancelled
C23_Witness ==
    /\ resp.op = "list"
    /\ \E j \in DOMAIN resp.jobs :
          /\ resp.jobs[j].status = "cancelled"
          /\ resp.jobs[j].result_count = 1
          /\ resp.jobs[j].log_count >= 4

\* The step in which the orchestrator of job j handles a job-level failure: the
\* translation client is unavailable (2012-2016) or an exception reached the
\* handler of line 2187.
JobLevelFailure(j) ==
    /\ Has(migration_jobs, j)
    /\ task[j].pc \in {"no_openai", "except"}
    /\ task'[j].pc = "done"

\* C24: a job-level failure ends the job with status failed and exactly one more
\* log entry, of level error, and appends no outcome: outcomes and counters are
\* those of the objects processed before.
C24_JobLevelFailure ==
    [][\A j \in Uuids :
          JobLevelFailure(j)
          => /\ migration_jobs'[j].status = "failed"
             /\ Len(written'[j]) = Len(written[j]) + 1
             /\ Last(written'[j]).level = "error"
             /\ Last(migration_jobs'[j].logs) = Last(written'[j])
             /\ migration_jobs'[j].object_results = migration_jobs[j].object_results
             /\ migration_jobs'[j].completed_objects = migration_jobs[j].completed_objects
             /\ migration_jobs'[j].failed_objects = migration_jobs[j].failed_objects]_vars

\* the source connection failed: the job ended failed with the start entry and
\* one error entry, and no outcome
C24_Witness ==
    \E j \in Jobs :
        /\ OPENAI_AVAILABLE /\ task[j].pc = "done" /\ ~task[j].resolved
        /\ cancel_seen[j].pc = "none"
        /\ Job(j).status = "failed" /\ Job(j).total_objects >= 1
        /\ Len(Job(j).logs) = 2 /\ Job(j).logs[2].message = <<"migration_failed">>
        /\ Job(j).object_results = <<>>

\* C25: under fair scheduling of the orchestrator, every job that has a record
\* eventually has a terminal status (completed, failed or cancelled), unless the
\* record is deleted first.
C25_EventuallyTerminal ==
    \A j \in Uuids :
        Has(migration_jobs, j)
        ~> (~Has(migration_jobs, j) \/ migration_jobs[j].status \in Terminal)

\* the orchestrator ran a job with an object to the end, nobody cancelled or
\* deleted it: the task is finished and the status is completed
C25_Witness ==
    \E j \in Jobs :
        /\ task[j].pc = "done" /\ task[j].resolved
        /\ cancel_seen[j].pc = "none"
        /\ Job(j).total_objects >= 1
        /\ Len(Job(j).object_results) = Job(j).total_objects
        /\ Job(j).status = "completed"

TypeRank(type) == CASE type = "TABLE" -> 1 [] type = "VIEW" -> 2 [] type = "PROCEDURE" -> 3

\* C26: the outcomes of a job are those of the first objects of its resolved list,
\* one each and in the order of the list, which holds all tables, then all views,
\* then all procedures; the orchestrator has called the Translator or skipped for
\* exactly these objects and at most the one that follows them.
C26_FixedOrder ==
    \A j \in Jobs :
        task[j].resolved
        => LET results == Job(j).object_results
               all_objects == task[j].all_objects
           IN  /\ Len(results) <= Len(all_objects)
               /\ \A k \in 1..Len(results) :
                     /\ results[k].object_name = k
                     /\ results[k].object_type = all_objects[k].type
                     /\ (results[k].status = "skipped") <=> ~all_objects[k].src
               /\ \A k, l \in 1..Len(results) :
                     k < l => TypeRank(results[k].object_type)
                                 <= TypeRank(results[l].object_type)
               /\ Len(task[j].trace) \in {Len(results), Len(results) + 1}
               /\ task[j].pc \in {"check", "finish"} => Len(task[j].trace) = Len(results)

\* a finished job with a table, a view and a procedure, processed in this order
C26_Witness ==
    \E j \in Jobs :
        /\ task[j].pc = "done" /\ Job(j).status = "completed"
        /\ Len(Job(j).object_results) = 3
        /\ Job(j).object_results[1].object_type = "TABLE"
        /\ Job(j).object_results[2].object_type = "VIEW"
        /\ Job(j).object_results[3].object_type = "PROCEDURE"
        /\ Len(task[j].trace) = 3

\* The Executor was called for the k-th object of the job: cursor.execute returned
\* or raised.
ExecutorCalled(j, k) == task[j].trace[k] \in {"executed", "exec_error"}

\* The step that records the outcome of an object whose translation returned and
\* for which nothing was executed.
RecordsTranslated(j) ==
    /\ Has(migration_jobs, j)
    /\ task[j].pc = "record"
    /\ task'[j].pc \in {"check", "finish"}
    /\ Last(task[j].trace) = "translated"

\* C27: the Executor is called for an object only in a job that is not a dry run,
\* for a table or a view with source text whose translation returned; in a dry run,
\* and for a procedure in any mode, a translation that returned is recorded as a
\* success outcome that increments completed_objects, with no Executor call.
C27_ExecutorOnlyWhenEligible ==
    /\ [](\A j \in Uuids : \A k \in 1..Len(task[j].trace) :
            LET obj == task[j].all_objects[k]
            IN  /\ ExecutorCalled(j, k)
                    => ~task[j].dry_run /\ obj.type \in {"TABLE", "VIEW"} /\ obj.src
                /\ task[j].trace[k] = "translated"
                    <=> /\ obj.src
                        /\ task[j].dry_run \/ obj.type = "PROCEDURE"
                        /\ task[j].trace[k] # "translate_error")
    /\ [][\A j \in Uuids :
            RecordsTranslated(j)
            => /\ Last(migration_jobs'[j].object_results).status = "success"
               /\ Len(migration_jobs'[j].object_results)
                     = Len(migration_jobs[j].object_results) + 1
               /\ migration_jobs'[j].completed_objects
                     = migration_jobs[j].completed_objects + 1
               /\ migration_jobs'[j].failed_objects = migration_jobs[j].failed_objects]_vars

\* outside a dry run the cursor executed the translation of a table, and the
\* translation of the procedure that follows was recorded as a success without
\* any execution
C27_Witness ==
    \E j \in Jobs :
        /\ Len(Job(j).object_results) = 2 /\ Len(task[j].trace) = 2
        /\ task[j].all_objects[1].type = "TABLE" /\ task[j].all_objects[1].src
        /\ task[j].all_objects[2].type = "PROCEDURE"
        /\ ~task[j].dry_run
        /\ task[j].trace = <<"executed", "translated">>
        /\ Job(j).object_results[2].status = "success"
        /\ Job(j).completed_objects = 2

\* C28: the dict a GetProgress returned keeps the logs and the object_results it
\* had when it was returned: no later step of the orchestrator changes what its
\* holder reads in them.
C28_SnapshotIsolated ==
    [][(snapshot.job_id # Unknown /\ resp' = NoResp)
          => /\ snapshot_logs' = snapshot_logs
             /\ snapshot_object_results' = snapshot_object_results]_vars

\* update, append_log, append_outcome and complete applied to a table without a
\* record for job_id return the table as it is.
HelpersAreNoOps(job_id, jobs_dict) ==
    /\ update_migration_progress(job_id, jobs_dict,
           [completed_objects |-> 1, current_object |-> 1]) = jobs_dict
    /\ add_migration_log(job_id, jobs_dict, "info", <<"processing">>) = jobs_dict
    /\ add_object_result(job_id, jobs_dict, 1, "TABLE", "success", "None") = jobs_dict
    /\ complete_migration_job(job_id, jobs_dict, "completed") = jobs_dict

\* The orchestrator of job j is between its first and its last block.
Running(j) == task[j].pc \notin {"none", "done"}

\* C29: the four writers leave a table without a record for job_id unchanged, so
\* once the record of a job is deleted it stays absent whatever its orchestrator
\* does, and the orchestrator begins no further object: it makes the calls of the
\* object whose iteration had passed the cancellation check at most, records
\* nothing and never advances to the next object.
C29_NoOpsWhenAbsent ==
    /\ [](\A j \in Ids : ~Has(migration_jobs, j) => HelpersAreNoOps(j, migration_jobs))
    /\ [][\A j \in Uuids :
            (~Has(migration_jobs, j) /\ j \notin fresh)
            => /\ ~Has(migration_jobs', j)
               /\ Running(j)
                  => /\ task[j].pc # "start"
                        => /\ task'[j].idx = task[j].idx
                           /\ task'[j].all_objects = task[j].all_objects
                           /\ task'[j].pc \in {task[j].pc, "record", "except", "done"}
                     /\ task'[j].trace # task[j].trace
                        => /\ task[j].pc = "process"
                           /\ task'[j].pc = "record"
                           /\ Len(task'[j].trace) = task[j].idx]_vars

\* the record of a job of two objects was deleted while the first was in flight:
\* the task ended through the handler of line 2187 without reaching the second
C29_Witness ==
    \E j \in Uuids \ fresh :
        /\ ~Has(migration_jobs, j)
        /\ task[j].pc = "done" /\ task[j].resolved
        /\ cancel_seen[j].pc = "none"
        /\ Len(task[j].all_objects) = 2
        /\ task[j].idx = 1 /\ Len(task[j].trace) = 1

\* C30: create on a job_id that has a record fails and leaves the record as it is.
C30_CreateFailsOnExisting ==
    [][(resp'.op = "create" /\ Has(migration_jobs, resp'.job_id))
          => /\ resp'.raised
             /\ migration_jobs'[resp'.job_id] = migration_jobs[resp'.job_id]]_vars

\* The step is an operation on job a: a block of its orchestrator, a handler called
\* with its id, or an iteration of a generator of its stream.
OperatesOn(a) ==
    \/ task'[a] # task[a]
    \/ resp'.op \in {"start", "cancel", "delete", "progress"} /\ resp'.job_id = a
    \/ \E c \in Consumers : sse'[c] # sse[c] /\ sse'[c].job_id = a

\* The next block of the orchestrator of job a.
StepOf(a) ==
    \/ \E connected \in BOOLEAN, inventory \in Inventories(StreamObjs) :
          run_start(a, connected, inventory)
    \/ run_no_openai(a)
    \/ run_check(a)
    \/ \E outcome \in AllOutcomes : run_process(a, outcome)
    \/ run_record(a)
    \/ run_finish(a)
    \/ run_except(a)

\* No lock object made for job a is locked by a suspended task.
Unlocked(a) == \A h \in held : h[1] # a

\* C31: an operation on one job changes neither the record nor the lock entry of
\* another job, and it never waits for a lock of another job: with no lock of its
\* own job locked, the orchestrator's next block and CancelJob and DeleteJob on
\* the job can run, whatever locks of other jobs are held.
C31_JobsIndependent ==
    /\ [][\A a \in Ids : \A b \in Ids \ {a} :
            OperatesOn(a) => /\ migration_jobs'[b] = migration_jobs[b]
                             /\ migration_locks'[b] = migration_locks[b]]_vars
    /\ [](\A a \in Uuids :
            Unlocked(a)
            => /\ Running(a) => ENABLED StepOf(a)
               /\ a \in Created => ENABLED cancel_migration(a)
               /\ a \in Created => ENABLED delete_migration_job(a))

\* job a is being processed and has its record and lock entry, while a generator of
\* the stream of the deleted job b is suspended with b's lock locked
C31_Witness ==
    \E a \in Jobs : \E b \in Created \ {a} :
        /\ task[a].pc = "record" /\ migration_locks[a] # NoLock
        /\ Len(Job(a).logs) = 2
        /\ ~Has(migration_jobs, b) /\ task[b].pc = "done"
        /\ \E h \in held : h[1] = b

\* C32: while the record of a job exists and its status is completed, failed or
\* cancelled, no step changes its logs, its object_results, its counters, its
\* progress_percentage or its current_object.
C32_FrozenWhenTerminal ==
    [][\A j \in Uuids :
          (/\ Has(migration_jobs, j) /\ Has(migration_jobs', j)
           /\ migration_jobs[j].status \in Terminal)
          => /\ migration_jobs'[j].logs = migration_jobs[j].logs
             /\ migration_jobs'[j].object_results = migration_jobs[j].object_results
             /\ migration_jobs'[j].completed_objects = migration_jobs[j].completed_objects
             /\ migration_jobs'[j].failed_objects = migration_jobs[j].failed_objects
             /\ migration_jobs'[j].progress_percentage
                   = migration_jobs[j].progress_percentage
             /\ migration_jobs'[j].current_object = migration_jobs[j].current_object]_vars

\* Number of the outcomes of a record whose status is one of statuses.
CountOf(job, statuses) ==
    Cardinality({k \in 1..Len(job.object_results) :
                    job.object_results[k].status \in statuses})

Consistent(job) ==
    /\ Len(job.object_results) = job.completed_objects + job.failed_objects
    /\ CountOf(job, {"error"}) = job.failed_objects
    /\ CountOf(job, {"success", "skipped"}) = job.completed_objects

\* C33: in every record as it stands between two lock blocks, and in every record
\* a GetProgress returns, object_results has completed_objects + failed_objects
\* entries, failed_objects of them with status error and completed_objects with
\* status success or skipped.
C33_CountersMatchOutcomes ==
    /\ \A j \in Jobs : Consistent(Job(j))
    /\ (resp.op = "progress" /\ resp.http = 200) => Consistent(resp.job)

\* a GetProgress read a record with one failed and one completed object
C33_Witness ==
    /\ resp.op = "progress" /\ resp.http = 200
    /\ resp.job.failed_objects = 1 /\ resp.job.completed_objects = 1
    /\ Len(resp.job.object_results) = 2
    /\ resp.job.object_results[1].status = "error"

\* The step is a lock block of the orchestrator of job j (every block of
\* run_migration_job; the lines before the first block take no lock).
InBlock(j) ==
    /\ task[j].pc \in {"no_openai", "check", "process", "record", "finish", "except"}
    /\ task'[j] # task[j]

\* C34: the tasks that work on one job_id use one lock object, and the orchestrator
\* of a job is never inside a lock block while another task is suspended inside a
\* lock block for the same job_id.
C34_OneLockPerJob ==
    [][\A j \in Uuids :
          InBlock(j) => /\ \A h \in held : h[1] # j
                        /\ migration_locks[j] \in {NoLock, task[j].lock}]_vars

\* No orchestrator is between two of its blocks and no generator is suspended
\* inside a lock block.
AtRest == held = {} /\ \A j \in Ids : ~Running(j)

\* C35: when no operation is in progress, every entry of the lock table belongs to
\* a job_id that has a record.
C35_LocksOnlyForRecords ==
    AtRest => \A j \in Ids : migration_locks[j] # NoLock => Has(migration_jobs, j)

====
